---- MODULE Spec2Model ----
(***************************************************************************)
(* A model of activity-tracker.js: the ActivityTracker object (session,    *)
(* event sequence, config), the DOM event handlers that append records to  *)
(* the event sequence, the throttle wrapper, the element classifier        *)
(* getEventObjectType, the locator builders getCssSelector and getXPath,   *)
(* and the public API (getAllEvents, getEventsByType, ...).                *)
(*                                                                         *)
(* JavaScript values.  A string is a TLA+ string.  A value that may be     *)
(* undefined (element.type, element.innerText, element.value, the return   *)
(* value of getXPath) is a sequence of length 0 (undefined) or 1 (the      *)
(* string).  A node reference is a positive integer, null is 0.            *)
(***************************************************************************)
EXTENDS Integers, Sequences, FiniteSets, TLC

VARIABLES
    pc,         \* "loading": script evaluated, DOM not ready; "ready": initActivityTracker has run
    session,    \* ActivityTracker.session: sessionId and startTime
    events,     \* ActivityTracker.events
    config,     \* ActivityTracker.config (the object window.ActivityTracker.config exposes)
    listeners,  \* the listeners addEventListener has registered
    now,        \* Date.now()
    lastCall,   \* lastCall of each closure throttle() has returned
    dom,        \* the document tree: node -> its properties
    lastEvent,  \* the DOM event dispatched last, and whether its handler appended a record
    ret         \* what the last call of a function of the script returned to its caller

vars == <<pc, session, events, config, listeners, now, lastCall, dom, lastEvent, ret>>

----------------------------------------------------------------------------
(* JavaScript values *)

Null == 0
Undefined == <<>>
Str(s) == <<s>>

\* String(v) as string concatenation applies it: undefined + '/x' is "undefined/x".
ToStr(v) == IF v = Undefined THEN "undefined" ELSE v[1]

\* v || 'N/A' for a value that may be undefined or the empty string.
OrNA(v) == IF v = Undefined \/ v = Str("") THEN "N/A" ELSE v[1]

\* s || 'N/A' for a string.
StrOrNA(s) == IF s = "" THEN "N/A" ELSE s

UpperChars == "ABCDEFGHIJKLMNOPQRSTUVWXYZ"
LowerChars == "abcdefghijklmnopqrstuvwxyz"

LowerChar(c) ==
    IF \E i \in 1..Len(UpperChars) : SubSeq(UpperChars, i, i) = c
    THEN LET i == CHOOSE j \in 1..Len(UpperChars) : SubSeq(UpperChars, j, j) = c
         IN  SubSeq(LowerChars, i, i)
    ELSE c

RECURSIVE toLowerCase(_)
toLowerCase(s) ==
    IF s = "" THEN ""
    ELSE LowerChar(SubSeq(s, 1, 1)) \o toLowerCase(SubSeq(s, 2, Len(s)))

substring0OffByOne(s, n) == SubSeq(s, 1, IF Len(s) < n + 1 THEN Len(s) ELSE n + 1)

\* s.substring(0, n)
substring0(s, n) == SubSeq(s, 1, IF Len(s) < n THEN Len(s) ELSE n)

\* s.split(' '): the pieces between the separators, empty pieces included.
RECURSIVE splitFrom(_, _, _)
splitFrom(s, sep, cur) ==
    IF s = "" THEN <<cur>>
    ELSE IF SubSeq(s, 1, 1) = sep
         THEN <<cur>> \o splitFrom(SubSeq(s, 2, Len(s)), sep, "")
         ELSE splitFrom(SubSeq(s, 2, Len(s)), sep, cur \o SubSeq(s, 1, 1))

split(s, sep) == splitFrom(s, sep, "")

\* parts.join(sep)
RECURSIVE join(_, _)
join(parts, sep) ==
    IF parts = <<>> THEN ""
    ELSE IF Len(parts) = 1 THEN parts[1]
    ELSE parts[1] \o sep \o join(Tail(parts), sep)

\* parts.filter(c => c)
nonEmpty(parts) == SelectSeq(parts, LAMBDA c : c # "")

----------------------------------------------------------------------------
(* The document tree.  A node has nodeType (1 element, 3 text, 9 document), *)
(* tagName, id, className, type, innerText, value, parentNode, childNodes. *)

ELEMENT_NODE == 1
TEXT_NODE == 3
DOCUMENT_NODE == 9

Node(nt, tag, id, cls, type, parent, kids) ==
    [nodeType |-> nt, tagName |-> tag, id |-> id, className |-> cls, type |-> type,
     innerText |-> Undefined, value |-> Undefined, name |-> "", href |-> "",
     parentNode |-> parent, childNodes |-> kids]

Elements(d) == {n \in DOMAIN d : d[n].nodeType = ELEMENT_NODE}

\* element.parentElement: the parent when it is an element, else null.
parentElement(d, n) ==
    LET p == d[n].parentNode
    IN  IF p # Null /\ d[p].nodeType = ELEMENT_NODE THEN p ELSE Null

\* The position of n among its parent's childNodes.
indexInParent(d, n) ==
    LET kids == d[d[n].parentNode].childNodes
    IN  CHOOSE i \in 1..Len(kids) : kids[i] = n

\* element.previousElementSibling: the nearest preceding sibling that is an element.
previousElementSibling(d, n) ==
    IF d[n].parentNode = Null THEN Null
    ELSE LET kids == d[d[n].parentNode].childNodes
             before == {i \in 1..(indexInParent(d, n) - 1) : d[kids[i]].nodeType = ELEMENT_NODE}
         IN  IF before = {} THEN Null
             ELSE kids[CHOOSE i \in before : \A j \in before : j <= i]

\* document.body: the BODY child of the document element.
documentBody(d) ==
    LET bodies == {n \in Elements(d) :
                      /\ d[n].tagName = "BODY"
                      /\ d[n].parentNode # Null
                      /\ d[d[n].parentNode].parentNode # Null
                      /\ d[d[d[n].parentNode].parentNode].nodeType = DOCUMENT_NODE}
    IN  IF bodies = {} THEN Null ELSE CHOOSE n \in bodies : TRUE

----------------------------------------------------------------------------
(* getEventObjectType: the category label of an element. *)

FormTags == {"input", "textarea", "select"}

inputTypeLabelCaseSensitive(type) ==
    CASE type \in {Str("text"), Str("password"), Str("email"),
                   Str("search"), Str("tel"), Str("url")} -> "TEXT_FIELD"
      [] type = Str("checkbox") -> "CHECKBOX"
      [] type = Str("radio") -> "RADIO_BUTTON"
      [] type = Str("file") -> "FILE_UPLOAD"
      [] type \in {Str("submit"), Str("button")} -> "BUTTON"
      [] type = Str("range") -> "SLIDER"
      [] type \in {Str("date"), Str("time"), Str("datetime-local")} -> "DATE_PICKER"
      [] type = Str("color") -> "COLOR_PICKER"
      [] OTHER -> "INPUT_FIELD"

\* The switch on element.type?.toLowerCase() (type undefined: the default case).
inputTypeLabel(type) ==
    LET t == IF type = Undefined THEN Undefined ELSE Str(toLowerCase(type[1]))
    IN  CASE t \in {Str("text"), Str("password"), Str("email"),
                    Str("search"), Str("tel"), Str("url")} -> "TEXT_FIELD"
          [] t = Str("checkbox") -> "CHECKBOX"
          [] t = Str("radio") -> "RADIO_BUTTON"
          [] t = Str("file") -> "FILE_UPLOAD"
          [] t \in {Str("submit"), Str("button")} -> "BUTTON"
          [] t = Str("range") -> "SLIDER"
          [] t \in {Str("date"), Str("time"), Str("datetime-local")} -> "DATE_PICKER"
          [] t = Str("color") -> "COLOR_PICKER"
          [] OTHER -> "INPUT_FIELD"

tagLabelNoFallback(tagName) ==
    CASE tagName = "a" -> "LINK"
      [] tagName = "button" -> "BUTTON"
      [] tagName = "img" -> "IMAGE"
      [] tagName \in {"ul", "ol"} -> "LIST"
      [] tagName = "li" -> "LIST_ITEM"
      [] tagName = "div" -> "CONTAINER"
      [] OTHER -> tagName

\* The switch on tagName for the elements that are not form controls.
tagLabel(tagName) ==
    CASE tagName = "a" -> "LINK"
      [] tagName = "button" -> "BUTTON"
      [] tagName = "img" -> "IMAGE"
      [] tagName = "video" -> "VIDEO"
      [] tagName = "audio" -> "AUDIO"
      [] tagName = "iframe" -> "IFRAME"
      [] tagName = "canvas" -> "CANVAS"
      [] tagName = "svg" -> "SVG"
      [] tagName = "table" -> "TABLE"
      [] tagName \in {"ul", "ol"} -> "LIST"
      [] tagName = "li" -> "LIST_ITEM"
      [] tagName = "div" -> "CONTAINER"
      [] tagName = "span" -> "TEXT_SPAN"
      [] tagName = "p" -> "PARAGRAPH"
      [] tagName \in {"h1", "h2", "h3", "h4", "h5", "h6"} -> "HEADING"
      [] tagName = "form" -> "FORM"
      [] tagName = "label" -> "LABEL"
      [] tagName = "nav" -> "NAVIGATION"
      [] tagName = "header" -> "HEADER"
      [] tagName = "footer" -> "FOOTER"
      [] tagName = "section" -> "SECTION"
      [] tagName = "article" -> "ARTICLE"
      [] tagName = "main" -> "MAIN_CONTENT"
      [] OTHER -> "ELEMENT"

getEventObjectType(element) ==
    LET tagName == toLowerCase(element.tagName)
    IN  IF tagName \in FormTags
        THEN IF tagName = "select" THEN "DROP_DOWN" ELSE inputTypeLabel(element.type)
        ELSE tagLabel(tagName)

----------------------------------------------------------------------------
(* getCssSelector: the CSS-selector-like locator of an element. *)

RECURSIVE countNthAnyTag(_, _, _, _)
countNthAnyTag(d, element, sibling, nth) ==
    LET prev == previousElementSibling(d, sibling)
    IN  IF prev = Null THEN nth ELSE countNthAnyTag(d, element, prev, nth + 1)

\* The inner loop: one plus the number of preceding element siblings whose
\* tagName is that of the element.
RECURSIVE countNth(_, _, _, _)
countNth(d, element, sibling, nth) ==
    LET prev == previousElementSibling(d, sibling)
    IN  IF prev = Null THEN nth
        ELSE countNth(d, element, prev,
                      IF d[prev].tagName = d[element].tagName THEN nth + 1 ELSE nth)

\* The selector of one level that has no id: tag, or tag:nth-of-type(n) when n > 1.
levelSelector(d, element) ==
    LET nth == countNth(d, element, element, 1)
        tag == toLowerCase(d[element].tagName)
    IN  IF nth > 1 THEN tag \o ":nth-of-type(" \o ToString(nth) \o ")" ELSE tag

\* The while (element.parentElement) loop: path is what has been unshifted so far.
RECURSIVE cssPath(_, _, _)
cssPath(d, element, path) ==
    IF parentElement(d, element) = Null THEN path
    ELSE IF d[element].id # ""
         THEN <<toLowerCase(d[element].tagName) \o "#" \o d[element].id>> \o path
         ELSE cssPath(d, parentElement(d, element), <<levelSelector(d, element)>> \o path)

getCssSelectorClassFirst(d, element) ==
    IF d[element].className # ""
    THEN toLowerCase(d[element].tagName) \o "."
             \o join(nonEmpty(split(d[element].className, " ")), ".")
    ELSE IF d[element].id # "" THEN "#" \o d[element].id
    ELSE join(cssPath(d, element, <<>>), " > ")

getCssSelector(d, element) ==
    IF d[element].id # "" THEN "#" \o d[element].id
    ELSE IF d[element].className # ""
         THEN toLowerCase(d[element].tagName) \o "."
                  \o join(nonEmpty(split(d[element].className, " ")), ".")
         ELSE join(cssPath(d, element, <<>>), " > ")

----------------------------------------------------------------------------
(* getXPath: the XPath-like locator of an element; undefined when the loop  *)
(* over the parent's childNodes ends without finding the element.          *)

RECURSIVE getXPath(_, _)
RECURSIVE xpathLoop(_, _, _, _, _)
\* The for loop, at index i (1-based here) with ix same-tag element siblings seen.
xpathLoop(d, element, siblings, i, ix) ==
    IF i > Len(siblings) THEN Undefined
    ELSE IF siblings[i] = element
         THEN Str(ToStr(getXPath(d, d[element].parentNode)) \o "/"
                      \o toLowerCase(d[element].tagName) \o "[" \o ToString(ix + 1) \o "]")
         ELSE xpathLoop(d, element, siblings, i + 1,
                        IF /\ d[siblings[i]].nodeType = ELEMENT_NODE
                           /\ d[siblings[i]].tagName = d[element].tagName
                        THEN ix + 1 ELSE ix)

getXPath(d, element) ==
    IF d[element].id # "" THEN Str("//*[@id=\"" \o d[element].id \o "\"]")
    ELSE IF element = documentBody(d) THEN Str("/html/body")
    ELSE LET siblings == IF d[element].parentNode = Null THEN <<>>
                         ELSE d[d[element].parentNode].childNodes
         IN  xpathLoop(d, element, siblings, 1, 0)

----------------------------------------------------------------------------
(* The documents the model runs on. *)

\* The ids the page may give to the nodes that can carry one ("" is no id).
IdChoices ==
    [html : {"", "root"}, div : {"", "nav"}, ul : {"", "menu"},
     li : {"", "last"}, input : {"", "agree"}, detached : {"", "float"}]

NoIds ==
    [html |-> "", div |-> "", ul |-> "", li |-> "", input |-> "", detached |-> ""]

LongText == "The quick brown fox jumps over the lazy dog and runs far away"
Text51 == "123456789012345678901234567890123456789012345678901"
Text50 == "12345678901234567890123456789012345678901234567890"

\* document > html > (head, body > (div > ul > (li, #text, li, p, li),
\*                                   form > (input, select, a, textarea)))
\* and a detached div > span.
PageDoc(ids) ==
    LET n == [i \in 1..18 |->
               CASE i = 1  -> Node(DOCUMENT_NODE, "", "", "", Undefined, Null, <<2>>)
                 [] i = 2  -> Node(ELEMENT_NODE, "HTML", ids.html, "", Undefined, 1, <<3, 4>>)
                 [] i = 3  -> Node(ELEMENT_NODE, "HEAD", "", "", Undefined, 2, <<>>)
                 [] i = 4  -> Node(ELEMENT_NODE, "BODY", "", "", Undefined, 2, <<5, 12>>)
                 [] i = 5  -> Node(ELEMENT_NODE, "DIV", ids.div, "", Undefined, 4, <<6>>)
                 [] i = 6  -> Node(ELEMENT_NODE, "UL", ids.ul, "", Undefined, 5, <<7, 8, 9, 10, 11>>)
                 [] i = 7  -> Node(ELEMENT_NODE, "LI", "", "", Undefined, 6, <<>>)
                 [] i = 8  -> Node(TEXT_NODE, "", "", "", Undefined, 6, <<>>)
                 [] i = 9  -> Node(ELEMENT_NODE, "LI", "", "", Undefined, 6, <<>>)
                 [] i = 10 -> Node(ELEMENT_NODE, "P", "", "", Undefined, 6, <<>>)
                 [] i = 11 -> Node(ELEMENT_NODE, "LI", ids.li, "", Undefined, 6, <<>>)
                 [] i = 12 -> Node(ELEMENT_NODE, "FORM", "signup", "wide", Undefined, 4, <<13, 14, 15, 16>>)
                 [] i = 13 -> Node(ELEMENT_NODE, "INPUT", ids.input, "", Str("checkbox"), 12, <<>>)
                 [] i = 14 -> Node(ELEMENT_NODE, "SELECT", "", "", Str("select-one"), 12, <<>>)
                 [] i = 15 -> Node(ELEMENT_NODE, "A", "", "btn  primary", Undefined, 12, <<>>)
                 [] i = 16 -> Node(ELEMENT_NODE, "TEXTAREA", "", "", Str("textarea"), 12, <<>>)
                 [] i = 17 -> Node(ELEMENT_NODE, "DIV", ids.detached, "", Undefined, Null, <<18>>)
                 [] OTHER  -> Node(ELEMENT_NODE, "SPAN", "", "", Undefined, 17, <<>>)]
    IN  [n EXCEPT ![5].innerText = Str(LongText),
                  ![7].innerText = Str("Home"),
                  ![9].innerText = Str(Text50),
                  ![10].innerText = Str(""),
                  ![11].innerText = Str(Text51),
                  ![13].value = Str("on"), ![13].name = "agree",
                  ![14].value = Str(Text50), ![14].name = "country",
                  ![15].innerText = Str("Sign up"), ![15].href = "https://example.test/signup",
                  ![16].value = Str(LongText), ![16].name = "bio"]

PageDocs == {PageDoc(ids) : ids \in IdChoices}

\* The tag names getEventObjectType is applied to: those of both tables, in the
\* upper case an HTML document reports, and some that neither table lists.
TagNames ==
    {"INPUT", "TEXTAREA", "SELECT", "select", "Input",
     "A", "BUTTON", "IMG", "VIDEO", "AUDIO", "IFRAME", "CANVAS", "svg", "TABLE",
     "UL", "OL", "LI", "DIV", "SPAN", "P", "H1", "H2", "H3", "H4", "H5", "H6",
     "FORM", "LABEL", "NAV", "HEADER", "FOOTER", "SECTION", "ARTICLE", "MAIN",
     "MY-WIDGET", "BODY", "HTML", "TD", "H7", "OPTION", "path"}

\* The values of element.type: undefined, those of the table in either case, others.
TypeValues ==
    {Undefined, Str(""),
     Str("text"), Str("password"), Str("email"), Str("search"), Str("tel"), Str("url"),
     Str("checkbox"), Str("radio"), Str("file"), Str("submit"), Str("button"),
     Str("range"), Str("date"), Str("time"), Str("datetime-local"), Str("color"),
     Str("CHECKBOX"), Str("Text"), Str("number"), Str("hidden"), Str("reset"),
     Str("textarea"), Str("select-one"), Str("datetime")}

\* A document that is one parentless element.
LoneElement(tag, type, id, cls) ==
    [i \in {1} |-> Node(ELEMENT_NODE, tag, id, cls, type, Null, <<>>)]

LoneElements ==
    {LoneElement(tag, type, id, "") : tag \in TagNames, type \in TypeValues, id \in {"", "x1"}}

----------------------------------------------------------------------------
(* Bounds of the model, and the environment it runs in. *)

\* The longest event sequence the model builds.
MaxEvents == 3
\* Date.now() when the script is evaluated, and how far the clock runs from there.
StartTime == 100000
MaxElapsed == 1500

\* The ids the page of the tracker's runs gives to its nodes.
PageIds ==
    [html |-> "", div |-> "nav", ul |-> "", li |-> "", input |-> "agree", detached |-> ""]

\* The elements the delivered events target, per kind of event.
ClickTargets == {5, 11, 15}
HoverTargets == {5, 15}
FocusTargets == {5, 13}
ChangeTargets == {14, 16}
SubmitTargets == {12}
Keys == {"Enter", "a"}

\* Math.random().toString(36).substr(2, 9)
RandomSuffixes == {"k3j9x2m1q"}

\* A pointer event's coordinates, and the window's scroll state and size.
Pointer == [clientX |-> 120, clientY |-> 80, pageX |-> 120, pageY |-> 330]
SyntheticPointer == [clientX |-> 0, clientY |-> 0, pageX |-> 0, pageY |-> 0]
Window == [scrollX |-> 0, scrollY |-> 250, innerWidth |-> 1280, innerHeight |-> 600,
           scrollHeight |-> 1600]

\* Math.round(x / y * 100) for x >= 0, y > 0.
roundPercent(x, y) == (2 * 100 * x + y) \div (2 * y)

\* Template literals `${w}x${h}`.
sizeString(w, h) == ToString(w) \o "x" \o ToString(h)

----------------------------------------------------------------------------
(* ActivityTracker: the object the script creates. *)

\* null of a session field before initActivityTracker: the empty sequence too
\* (no field of the model holds both null and undefined).
initialSession ==
    [sessionId |-> <<>>, startTime |-> <<>>,
     pageUrl |-> "https://example.test/", userAgent |-> "Mozilla/5.0",
     screenResolution |-> sizeString(1920, 1080),
     viewport |-> sizeString(Window.innerWidth, Window.innerHeight)]

initialConfig ==
    [logToConsole |-> TRUE, logDetailedInfo |-> TRUE, trackMouseMovement |-> FALSE,
     trackScrolling |-> TRUE, trackFormInputs |-> TRUE, groupSimilarEvents |-> FALSE]

generateSessionId(t, rnd) == "session_" \o ToString(t) \o "_" \o rnd

\* The records the handlers assemble.  timestamp holds the time in ms that
\* new Date().toISOString() renders.
pageViewEvent(t) ==
    [timestamp |-> t, type_of_event |-> "PAGE_VIEW", event_object |-> "PAGE",
     url |-> "https://example.test/", pathname |-> "/", referrer |-> "Direct",
     title |-> "Example", viewport |-> sizeString(Window.innerWidth, Window.innerHeight)]

clickEvent(d, element, t, cfg, ptr) ==
    [timestamp |-> t, type_of_event |-> "CLICK",
     event_object |-> getEventObjectType(d[element]),
     element |-> [tagName |-> toLowerCase(d[element].tagName),
                  id |-> StrOrNA(d[element].id),
                  className |-> StrOrNA(d[element].className),
                  text |-> OrNA(IF d[element].innerText = Undefined THEN Undefined
                                ELSE Str(substring0(d[element].innerText[1], 50))),
                  href |-> StrOrNA(d[element].href),
                  type |-> OrNA(d[element].type)],
     position |-> [x |-> ptr.clientX, y |-> ptr.clientY,
                   pageX |-> ptr.pageX, pageY |-> ptr.pageY],
     cssSelector |-> getCssSelector(d, element),
     xpath |-> getXPath(d, element),
     computedStyles |-> IF cfg.logDetailedInfo THEN "computed" ELSE "null"]

hoverEvent(d, element, t) ==
    [timestamp |-> t, type_of_event |-> "HOVER",
     event_object |-> getEventObjectType(d[element]),
     element |-> [tagName |-> toLowerCase(d[element].tagName),
                  id |-> StrOrNA(d[element].id),
                  className |-> StrOrNA(d[element].className)],
     cssSelector |-> getCssSelector(d, element)]

scrollEvent(t) ==
    [timestamp |-> t, type_of_event |-> "SCROLL", event_object |-> "PAGE",
     position |-> [scrollY |-> Window.scrollY, scrollX |-> Window.scrollX,
                   scrollPercentage |->
                       roundPercent(Window.scrollY, Window.scrollHeight - Window.innerHeight)],
     documentHeight |-> Window.scrollHeight, viewportHeight |-> Window.innerHeight]

focusEvent(d, element, t) ==
    [timestamp |-> t, type_of_event |-> "FOCUS",
     event_object |-> getEventObjectType(d[element]),
     element |-> [tagName |-> toLowerCase(d[element].tagName),
                  id |-> StrOrNA(d[element].id),
                  name |-> StrOrNA(d[element].name),
                  type |-> OrNA(d[element].type)],
     cssSelector |-> getCssSelector(d, element)]

blurEvent(d, element, t) ==
    [timestamp |-> t, type_of_event |-> "BLUR",
     event_object |-> getEventObjectType(d[element]),
     element |-> [tagName |-> toLowerCase(d[element].tagName),
                  id |-> StrOrNA(d[element].id),
                  name |-> StrOrNA(d[element].name)]]

changeEvent(d, element, t) ==
    [timestamp |-> t, type_of_event |-> "CHANGE",
     event_object |-> getEventObjectType(d[element]),
     element |-> [tagName |-> toLowerCase(d[element].tagName),
                  id |-> StrOrNA(d[element].id),
                  name |-> StrOrNA(d[element].name),
                  type |-> OrNA(d[element].type),
                  value |-> OrNA(IF d[element].value = Undefined THEN Undefined
                                 ELSE Str(substring0(d[element].value[1], 50)))]]

submitEvent(d, form, t) ==
    [timestamp |-> t, type_of_event |-> "FORM_SUBMIT", event_object |-> "FORM",
     form |-> [id |-> StrOrNA(d[form].id), name |-> StrOrNA(d[form].name),
               action |-> "https://example.test/signup", method |-> "get"]]

keyEvent(key, t) ==
    [timestamp |-> t, type_of_event |-> "KEYBOARD", event_object |-> "KEYBOARD",
     key |-> key, code |-> key, ctrlKey |-> FALSE, shiftKey |-> FALSE, altKey |-> FALSE]

moveEvent(t, ptr) ==
    [timestamp |-> t, type_of_event |-> "MOUSE_MOVE", event_object |-> "MOUSE",
     position |-> [x |-> ptr.clientX, y |-> ptr.clientY]]

resizeEvent(t) ==
    [timestamp |-> t, type_of_event |-> "RESIZE", event_object |-> "WINDOW",
     viewport |-> [width |-> Window.innerWidth, height |-> Window.innerHeight]]

\* The filters of the handlers that ignore some events.
interactiveTags == {"a", "button", "input", "select", "textarea"}
specialKeys == {"Enter", "Escape", "Tab", "Backspace", "Delete"}

\* The closure throttle(func, delay) returns, called at time t with lastCall
\* last: whether func is called, and lastCall afterwards.
throttleMovingLastCall(last, t, delay) ==
    [accepted |-> t - last >= delay, lastCall |-> t]

throttle(last, t, delay) ==
    IF t - last >= delay
    THEN [accepted |-> TRUE, lastCall |-> t]
    ELSE [accepted |-> FALSE, lastCall |-> last]

scrollDelay == 500
mouseMoveDelay == 1000
resizeDelay == 500

\* The listeners registerEventListeners adds under a config.
registerEventListeners(cfg) ==
    {"click", "mouseover", "keydown", "resize"}
        \cup (IF cfg.trackScrolling THEN {"scroll"} ELSE {})
        \cup (IF cfg.trackFormInputs THEN {"focus", "blur", "change", "submit"} ELSE {})
        \cup (IF cfg.trackMouseMovement THEN {"mousemove"} ELSE {})

ThrottledListeners == {"scroll", "mousemove", "resize"}

----------------------------------------------------------------------------
(* The public API. *)

getEventsByTypeOnObject(ev, eventType) ==
    SelectSeq(ev, LAMBDA event : event.event_object = eventType)

getEventsByType(ev, eventType) ==
    SelectSeq(ev, LAMBDA event : event.type_of_event = eventType)

getEventsByObjectType(ev, objectType) ==
    SelectSeq(ev, LAMBDA event : event.event_object = objectType)

\* What JSON.stringify writes for an event record: a property whose value is
\* undefined (xpath, when getXPath returned undefined) is left out, a string
\* is written as a string.
jsonOfEvent(event) ==
    IF "xpath" \notin DOMAIN event THEN event
    ELSE IF event.xpath = Undefined
         THEN [f \in (DOMAIN event) \ {"xpath"} |-> event[f]]
         ELSE [f \in DOMAIN event |-> IF f = "xpath" THEN event.xpath[1] ELSE event[f]]

exportAllButLast(sess, ev, t) ==
    [session |-> sess,
     events |-> [i \in 1..(Len(ev) - 1) |-> jsonOfEvent(ev[i])],
     exportTime |-> t]

\* exportData and its serialisation: the document JSON.parse reads back.
exportEventsAsJSON(sess, ev, t) ==
    [session |-> sess,
     events |-> [i \in 1..Len(ev) |-> jsonOfEvent(ev[i])],
     exportTime |-> t]

\* The counts by a field that handlePageUnload and printSummaryReport build.
countBy(ev, field) ==
    [v \in {ev[i][field] : i \in 1..Len(ev)} |->
        Cardinality({i \in 1..Len(ev) : ev[i][field] = v})]

\* events.slice(-10)
RecentCount == 10
sliceRecent(ev) ==
    IF Len(ev) <= RecentCount THEN ev ELSE SubSeq(ev, Len(ev) - RecentCount + 1, Len(ev))

\* The anchor downloadEventsAsJSON appends to document.body, as node a.
withAnchor(d, a) ==
    LET body == documentBody(d)
    IN  [n \in (DOMAIN d) \cup {a} |->
            IF n = a
            THEN [Node(ELEMENT_NODE, "A", "", "", Str(""), body, <<>>)
                      EXCEPT !.innerText = Str(""), !.href = "blob:https://example.test/1"]
            ELSE IF n = body THEN [d[n] EXCEPT !.childNodes = Append(@, a)]
            ELSE d[n]]

----------------------------------------------------------------------------
(* The state after the script has been evaluated, and the steps. *)

unshift(ev, record) == <<record>> \o ev

pushNothing(ev, record) == ev

\* ActivityTracker.events.push(record)
push(ev, record) == Append(ev, record)

NoCall == [fn |-> "none"]
NoEvent == [type |-> "none", appended |-> FALSE]

TrackerInit ==
    /\ pc = "loading"
    /\ session = initialSession
    /\ events = <<>>
    /\ config = initialConfig
    /\ listeners = {}
    /\ now = StartTime
    /\ lastCall = [h \in {} |-> 0]
    /\ lastEvent = NoEvent
    /\ ret = NoCall

Init ==
    /\ TrackerInit
    /\ dom = PageDoc(PageIds)

\* Time passes.
Tick(d) ==
    /\ now + d <= StartTime + MaxElapsed
    /\ now' = now + d
    /\ UNCHANGED <<pc, session, events, config, listeners, lastCall, dom, lastEvent, ret>>

\* A script of the page sets a flag of window.ActivityTracker.config.
SetConfig(flag, v) ==
    /\ config[flag] # v
    /\ config' = [config EXCEPT ![flag] = v]
    /\ UNCHANGED <<pc, session, events, listeners, now, lastCall, dom, lastEvent, ret>>

\* The document is ready: initActivityTracker runs (at once, or on DOMContentLoaded).
InitActivityTracker(rnd) ==
    /\ pc = "loading"
    /\ pc' = "ready"
    /\ session' = [session EXCEPT !.sessionId = Str(generateSessionId(now, rnd)),
                                  !.startTime = <<now>>]
    /\ events' = push(events, pageViewEvent(now))
    /\ listeners' = registerEventListeners(config) \cup {"beforeunload"}
    /\ lastCall' = [h \in registerEventListeners(config) \cap ThrottledListeners |-> 0]
    /\ UNCHANGED <<config, now, dom, lastEvent, ret>>

\* A DOM event of a type is dispatched to the listener registered for it.
Dispatch(type, record, appends) ==
    /\ type \in listeners
    /\ Len(events) < MaxEvents
    /\ events' = IF appends THEN push(events, record) ELSE events
    /\ lastEvent' = [type |-> type, appended |-> appends]
    /\ UNCHANGED <<pc, session, config, listeners, now, dom, ret>>

HandleClickEvent(element) ==
    /\ Dispatch("click", clickEvent(dom, element, now, config, Pointer), TRUE)
    /\ UNCHANGED lastCall

HandleHoverEventUnfiltered(element) ==
    /\ Dispatch("mouseover", hoverEvent(dom, element, now), TRUE)
    /\ UNCHANGED lastCall

HandleHoverEvent(element) ==
    /\ Dispatch("mouseover", hoverEvent(dom, element, now),
                toLowerCase(dom[element].tagName) \in interactiveTags)
    /\ UNCHANGED lastCall

HandleFocusEvent(element) ==
    /\ Dispatch("focus", focusEvent(dom, element, now),
                toLowerCase(dom[element].tagName) \in FormTags)
    /\ UNCHANGED lastCall

HandleBlurEvent(element) ==
    /\ Dispatch("blur", blurEvent(dom, element, now),
                toLowerCase(dom[element].tagName) \in FormTags)
    /\ UNCHANGED lastCall

HandleChangeEvent(element) ==
    /\ Dispatch("change", changeEvent(dom, element, now), TRUE)
    /\ UNCHANGED lastCall

HandleSubmitEvent(form) ==
    /\ Dispatch("submit", submitEvent(dom, form, now), TRUE)
    /\ UNCHANGED lastCall

HandleKeyboardEvent(key) ==
    /\ Dispatch("keydown", keyEvent(key, now), key \in specialKeys)
    /\ UNCHANGED lastCall

\* A throttled listener: the closure decides, and keeps its own lastCall.
DispatchThrottledShared(type, delay, record) ==
    /\ type \in listeners
    /\ LET r == throttle(lastCall[type], now, delay)
       IN  /\ Dispatch(type, record, r.accepted)
           /\ lastCall' = [h \in DOMAIN lastCall |-> r.lastCall]

DispatchThrottled(type, delay, record) ==
    /\ type \in listeners
    /\ LET r == throttle(lastCall[type], now, delay)
       IN  /\ Dispatch(type, record, r.accepted)
           /\ lastCall' = [lastCall EXCEPT ![type] = r.lastCall]

HandleScrollEventChecksFlag ==
    IF config.trackScrolling
    THEN DispatchThrottled("scroll", scrollDelay, scrollEvent(now))
    ELSE Dispatch("scroll", scrollEvent(now), FALSE) /\ UNCHANGED lastCall

HandleScrollEvent == DispatchThrottled("scroll", scrollDelay, scrollEvent(now))

HandleMouseMoveEvent == DispatchThrottled("mousemove", mouseMoveDelay, moveEvent(now, Pointer))

HandleResizeEvent == DispatchThrottled("resize", resizeDelay, resizeEvent(now))

\* beforeunload: the session summary goes to the console; nothing is appended.
HandlePageUnload ==
    /\ Dispatch("beforeunload", pageViewEvent(now), FALSE)
    /\ UNCHANGED lastCall

GetAllEvents ==
    /\ ret' = [fn |-> "getAllEvents", ref |-> "ActivityTracker.events"]
    /\ UNCHANGED <<pc, session, events, config, listeners, now, lastCall, dom, lastEvent>>

GetEventsByType(eventType) ==
    /\ ret' = [fn |-> "getEventsByType", arg |-> eventType,
               value |-> getEventsByType(events, eventType)]
    /\ UNCHANGED <<pc, session, events, config, listeners, now, lastCall, dom, lastEvent>>

GetEventsByObjectType(objectType) ==
    /\ ret' = [fn |-> "getEventsByObjectType", arg |-> objectType,
               value |-> getEventsByObjectType(events, objectType)]
    /\ UNCHANGED <<pc, session, events, config, listeners, now, lastCall, dom, lastEvent>>

ExportEventsAsJSON ==
    /\ ret' = [fn |-> "exportEventsAsJSON", value |-> exportEventsAsJSON(session, events, now)]
    /\ UNCHANGED <<pc, session, events, config, listeners, now, lastCall, dom, lastEvent>>

\* The file is saved by a click on a temporary anchor in document.body: the
\* click is dispatched to handleClickEvent like any other; the anchor is removed.
DownloadEventsAsJSON ==
    LET a == Cardinality(DOMAIN dom) + 1
        name == "activity-tracker-"
                    \o (IF session.sessionId = <<>> THEN "null" ELSE session.sessionId[1])
                    \o ".json"
    IN  /\ ret' = [fn |-> "downloadEventsAsJSON",
                   file |-> [name |-> name,
                             content |-> exportEventsAsJSON(session, events, now)]]
        /\ IF "click" \in listeners
           THEN /\ Len(events) < MaxEvents
                /\ events' = push(events, clickEvent(withAnchor(dom, a), a, now, config,
                                                      SyntheticPointer))
                /\ lastEvent' = [type |-> "click", appended |-> TRUE]
           ELSE UNCHANGED <<events, lastEvent>>
        /\ UNCHANGED <<pc, session, config, listeners, now, lastCall, dom>>

PrintSummaryReport ==
    /\ ret' = [fn |-> "printSummaryReport",
               eventCounts |-> countBy(events, "type_of_event"),
               objectCounts |-> countBy(events, "event_object"),
               recent |-> sliceRecent(events)]
    /\ UNCHANGED <<pc, session, events, config, listeners, now, lastCall, dom, lastEvent>>

\* The arguments the API is called with.
QueriedTypes == {"PAGE_VIEW", "CLICK", "click"}
QueriedObjectTypes == {"PAGE", "LINK", "page"}
TickSteps == {750}
FineTickSteps == {250, 500}

\* The DOM events of a run, each dispatched to its handler.
Handlers ==
    \/ \E element \in ClickTargets : HandleClickEvent(element)
    \/ \E element \in HoverTargets : HandleHoverEvent(element)
    \/ \E element \in FocusTargets : HandleFocusEvent(element)
    \/ \E element \in FocusTargets : HandleBlurEvent(element)
    \/ \E element \in ChangeTargets : HandleChangeEvent(element)
    \/ \E form \in SubmitTargets : HandleSubmitEvent(form)
    \/ \E key \in Keys : HandleKeyboardEvent(key)
    \/ HandleScrollEvent
    \/ HandleMouseMoveEvent
    \/ HandleResizeEvent
    \/ HandlePageUnload

\* The calls of the public API.
Api ==
    \/ GetAllEvents
    \/ \E eventType \in QueriedTypes : GetEventsByType(eventType)
    \/ \E objectType \in QueriedObjectTypes : GetEventsByObjectType(objectType)
    \/ ExportEventsAsJSON
    \/ DownloadEventsAsJSON
    \/ PrintSummaryReport

\* The tracker under the DOM events of a page whose scripts set the config
\* before the document is ready.
Next ==
    \/ \E d \in TickSteps : Tick(d)
    \/ pc = "loading" /\ \E v \in BOOLEAN : SetConfig("trackMouseMovement", v)
    \/ \E rnd \in RandomSuffixes : InitActivityTracker(rnd)
    \/ Handlers

Spec == Init /\ [][Next]_vars

\* The tracker under the calls of the public API between DOM events, one
\* target per kind of event, within one millisecond.
NextApi ==
    \/ pc = "loading" /\ SetConfig("trackMouseMovement", TRUE)
    \/ \E rnd \in RandomSuffixes : InitActivityTracker(rnd)
    \/ HandleClickEvent(15)
    \/ HandleHoverEvent(15)
    \/ HandleFocusEvent(13)
    \/ HandleBlurEvent(13)
    \/ HandleChangeEvent(16)
    \/ HandleSubmitEvent(12)
    \/ HandleKeyboardEvent("Enter")
    \/ HandleScrollEvent
    \/ HandleMouseMoveEvent
    \/ HandleResizeEvent
    \/ HandlePageUnload
    \/ Api

SpecApi == Init /\ [][NextApi]_vars

\* The throttled listeners alone, on a finer clock.
NextThrottle ==
    \/ \E d \in FineTickSteps : Tick(d)
    \/ pc = "loading" /\ SetConfig("trackMouseMovement", TRUE)
    \/ \E rnd \in RandomSuffixes : InitActivityTracker(rnd)
    \/ HandleScrollEvent
    \/ HandleMouseMoveEvent
    \/ HandleResizeEvent

SpecThrottle == Init /\ [][NextThrottle]_vars

----------------------------------------------------------------------------
(* initActivityTracker statement by statement: pc is the statement reached. *)
(* The script runs to completion, so no handler and no call of the API runs *)
(* between two of its statements.                                           *)

AssignSessionStartTimeOnly(rnd) ==
    /\ pc = "loading"
    /\ pc' = "sessionSet"
    /\ session' = [session EXCEPT !.startTime = <<now>>]
    /\ UNCHANGED <<events, config, listeners, now, lastCall, dom, lastEvent, ret>>

\* ActivityTracker.session.sessionId = ...; ActivityTracker.session.startTime = ...
AssignSession(rnd) ==
    /\ pc = "loading"
    /\ pc' = "sessionSet"
    /\ session' = [session EXCEPT !.sessionId = Str(generateSessionId(now, rnd)),
                                  !.startTime = <<now>>]
    /\ UNCHANGED <<events, config, listeners, now, lastCall, dom, lastEvent, ret>>

\* trackPageView()
TrackPageView ==
    /\ pc = "sessionSet"
    /\ pc' = "pageViewed"
    /\ events' = push(events, pageViewEvent(now))
    /\ UNCHANGED <<session, config, listeners, now, lastCall, dom, lastEvent, ret>>

\* registerEventListeners(); window.addEventListener('beforeunload', ...)
RegisterEventListeners ==
    /\ pc = "pageViewed"
    /\ pc' = "ready"
    /\ listeners' = registerEventListeners(config) \cup {"beforeunload"}
    /\ lastCall' = [h \in registerEventListeners(config) \cap ThrottledListeners |-> 0]
    /\ UNCHANGED <<session, events, config, now, dom, lastEvent, ret>>

\* The page around the script: events and calls of the API arrive before
\* initActivityTracker starts (the document still loading) and after it returns.
Idle == pc \in {"loading", "ready"}

NextInit ==
    \/ pc = "loading" /\ SetConfig("trackMouseMovement", TRUE)
    \/ \E rnd \in RandomSuffixes : AssignSession(rnd)
    \/ TrackPageView
    \/ RegisterEventListeners
    \/ Idle /\ HandleClickEvent(15)
    \/ Idle /\ HandleHoverEvent(5)
    \/ Idle /\ HandleChangeEvent(16)
    \/ Idle /\ HandleKeyboardEvent("Enter")
    \/ Idle /\ HandleScrollEvent
    \/ Idle /\ HandleMouseMoveEvent
    \/ Idle /\ HandlePageUnload
    \/ Idle /\ GetAllEvents
    \/ Idle /\ DownloadEventsAsJSON

SpecInit == Init /\ [][NextInit]_vars

----------------------------------------------------------------------------
(* The page sets the flags of window.ActivityTracker.config at any time,   *)
(* before and after the listeners are registered.                          *)

\* The flags of the exposed config object that the page sets.
ConfigFlags == {"trackScrolling", "trackFormInputs", "trackMouseMovement", "logToConsole"}

NextConfig ==
    \/ \E flag \in ConfigFlags, v \in BOOLEAN : SetConfig(flag, v)
    \/ \E rnd \in RandomSuffixes : InitActivityTracker(rnd)
    \/ HandleScrollEvent
    \/ HandleMouseMoveEvent
    \/ HandleFocusEvent(13)
    \/ HandleBlurEvent(13)
    \/ HandleChangeEvent(16)
    \/ HandleSubmitEvent(12)

SpecConfig == Init /\ [][NextConfig]_vars

----------------------------------------------------------------------------
(* The classifier and the locator builders applied to the elements of a    *)
(* document drawn from PageDocs and LoneElements.                          *)

CallGetEventObjectType(element) ==
    /\ ret' = [fn |-> "getEventObjectType", element |-> element,
               value |-> getEventObjectType(dom[element])]
    /\ UNCHANGED <<pc, session, events, config, listeners, now, lastCall, dom, lastEvent>>

CallGetCssSelector(element) ==
    /\ ret' = [fn |-> "getCssSelector", element |-> element,
               value |-> getCssSelector(dom, element),
               path |-> cssPath(dom, element, <<>>)]
    /\ UNCHANGED <<pc, session, events, config, listeners, now, lastCall, dom, lastEvent>>

CallGetXPath(element) ==
    /\ ret' = [fn |-> "getXPath", element |-> element, value |-> getXPath(dom, element)]
    /\ UNCHANGED <<pc, session, events, config, listeners, now, lastCall, dom, lastEvent>>

InitFn ==
    /\ TrackerInit
    /\ dom \in PageDocs \cup LoneElements

NextFn ==
    \E element \in Elements(dom) :
        \/ CallGetEventObjectType(element)
        \/ CallGetCssSelector(element)
        \/ CallGetXPath(element)

SpecFn == InitFn /\ [][NextFn]_vars

----------------------------------------------------------------------------
(* The claims. *)

IsPrefix(a, b) == Len(a) <= Len(b) /\ SubSeq(b, 1, Len(a)) = a

\* The records of a kind in a sequence, as indices.
IndicesOfType(ev, kind) == {i \in 1..Len(ev) : ev[i].type_of_event = kind}

\* A step appends exactly one record, of the given kind.
AppendsOne(kind) ==
    /\ Len(events') = Len(events) + 1
    /\ SubSeq(events', 1, Len(events)) = events
    /\ events'[Len(events')].type_of_event = kind

\* A call of the closure throttle(func, delay) registered for a type of event:
\* the first call and a call more than delay after the last accepted one append
\* a record and move the last-accepted time to now; a call less than delay after
\* the last accepted one appends nothing and leaves the last-accepted time.
ThrottledCall(type, delay, kind) ==
    LET gap == now - lastCall[type]
    IN  /\ lastCall[type] = 0 => AppendsOne(kind) /\ lastCall'[type] = now
        /\ gap > delay => AppendsOne(kind) /\ lastCall'[type] = now
        /\ (lastCall[type] # 0 /\ gap < delay) => events' = events /\ lastCall' = lastCall

\* C1: a throttled handler (scroll and resize at 500 ms, mouse-move at 1000 ms)
\* accepts its first invocation, drops an invocation less than the delay after
\* the last accepted one without moving the last-accepted time, and accepts one
\* whose gap from the last accepted one exceeds the delay.
C1_Throttle ==
    [][/\ HandleScrollEvent => ThrottledCall("scroll", 500, "SCROLL")
       /\ HandleResizeEvent => ThrottledCall("resize", 500, "RESIZE")
       /\ HandleMouseMoveEvent => ThrottledCall("mousemove", 1000, "MOUSE_MOVE")]_vars

\* A scroll invocation has been recorded and a second one, less than the delay
\* after it, has been dropped.
C1_Witness ==
    /\ lastEvent = [type |-> "scroll", appended |-> FALSE]
    /\ Cardinality(IndicesOfType(events, "SCROLL")) = 1
    /\ \E i \in IndicesOfType(events, "SCROLL") : lastCall["scroll"] = events[i].timestamp
    /\ now > lastCall["scroll"]
    /\ now - lastCall["scroll"] < 500

\* C2: the event sequence is append-only: over every step, of a delivered DOM
\* event or of a call of the public API, the sequence before is a prefix of the
\* sequence after.
C2_AppendOnly == [][IsPrefix(events, events')]_vars

\* Records have been appended between and after calls of the API.
C2_Witness ==
    /\ Len(events) = MaxEvents
    /\ ret.fn = "printSummaryReport"
    /\ Len(ret.recent) = 2
    /\ lastEvent.appended

\* C3 as claimed: handling beforeunload appends a record to the event sequence.
C3_UnloadAppends ==
    [][HandlePageUnload => Len(events') = Len(events) + 1]_vars

\* The kind of record the handler of a type of DOM event assembles.
KindOf ==
    [click |-> "CLICK", mouseover |-> "HOVER", scroll |-> "SCROLL", focus |-> "FOCUS",
     blur |-> "BLUR", change |-> "CHANGE", submit |-> "FORM_SUBMIT", keydown |-> "KEYBOARD",
     mousemove |-> "MOUSE_MOVE", resize |-> "RESIZE"]

\* A step in which a DOM event was dispatched to its handler: the steps of the
\* tracker that leave pc and ret alone and change events or lastEvent.
Dispatched == pc' = pc /\ ret' = ret /\ (events' # events \/ lastEvent' # lastEvent)

\* C3 as amended: initActivityTracker appends the PAGE_VIEW record; the handler
\* of every other kind of event, when it does not ignore the event, appends the
\* one record of its kind; handlePageUnload appends nothing.
C3_HandlersAppend ==
    [][/\ pc' # pc => AppendsOne("PAGE_VIEW")
       /\ HandlePageUnload => events' = events
       /\ (Dispatched /\ lastEvent'.type = "beforeunload") => events' = events
       /\ (Dispatched /\ lastEvent'.appended) => AppendsOne(KindOf[lastEvent'.type])
       /\ (Dispatched /\ ~lastEvent'.appended) => events' = events]_vars

\* beforeunload has been handled after a click was recorded.
C3_Witness ==
    /\ lastEvent = [type |-> "beforeunload", appended |-> FALSE]
    /\ Len(events) = 2
    /\ events[2].type_of_event = "CLICK"

\* C4: an element with a non-empty id gets the CSS selector #<id> and the
\* XPath //*[@id="<id>"], whatever its classes, tag, parent and siblings are.
C4_IdLocators ==
    /\ (ret.fn = "getCssSelector" /\ dom[ret.element].id # "")
           => ret.value = "#" \o dom[ret.element].id
    /\ (ret.fn = "getXPath" /\ dom[ret.element].id # "")
           => ret.value = Str("//*[@id=\"" \o dom[ret.element].id \o "\"]")

\* getCssSelector has been applied to an element that has an id, classes and a parent.
C4_Witness ==
    /\ ret.fn = "getCssSelector"
    /\ dom[ret.element].id # ""
    /\ dom[ret.element].className # ""
    /\ dom[ret.element].parentNode # Null
    /\ ret.value = "#signup"

\* JSON.parse of what exportEventsAsJSON returned: the property xpath of an
\* event is a string where it was written and absent where it was left out.
JSONparse(text) ==
    [session |-> text.session,
     events |-> [i \in 1..Len(text.events) |->
                   IF "xpath" \in DOMAIN text.events[i]
                   THEN [text.events[i] EXCEPT !.xpath = Str(@)]
                   ELSE text.events[i]],
     exportTime |-> text.exportTime]

\* C5: what exportEventsAsJSON returns parses to an object with as many events
\* as the event sequence holds at the call and with the session id held at the
\* call; records appended later do not change what was returned.
C5_ExportRoundTrip ==
    [][/\ ExportEventsAsJSON =>
              /\ Len(JSONparse(ret'.value).events) = Len(events)
              /\ JSONparse(ret'.value).session.sessionId = session.sessionId
       /\ (ret.fn = "exportEventsAsJSON" /\ ret'.fn = "exportEventsAsJSON"
               /\ events' # events) => ret' = ret]_vars

\* An export of two records is held while the sequence has grown to three.
C5_Witness ==
    /\ ret.fn = "exportEventsAsJSON"
    /\ Len(JSONparse(ret.value).events) = 2
    /\ JSONparse(ret.value).session.sessionId = session.sessionId
    /\ session.sessionId # <<>>
    /\ Len(events) = 3

\* The label the claim's table gives to a lower-cased type.
TypeTable ==
    ("text" :> "TEXT_FIELD") @@ ("password" :> "TEXT_FIELD") @@ ("email" :> "TEXT_FIELD")
    @@ ("search" :> "TEXT_FIELD") @@ ("tel" :> "TEXT_FIELD") @@ ("url" :> "TEXT_FIELD")
    @@ ("checkbox" :> "CHECKBOX") @@ ("radio" :> "RADIO_BUTTON") @@ ("file" :> "FILE_UPLOAD")
    @@ ("submit" :> "BUTTON") @@ ("button" :> "BUTTON") @@ ("range" :> "SLIDER")
    @@ ("date" :> "DATE_PICKER") @@ ("time" :> "DATE_PICKER")
    @@ ("datetime-local" :> "DATE_PICKER") @@ ("color" :> "COLOR_PICKER")

\* C6: for a tag input, textarea or select, getEventObjectType returns DROP_DOWN
\* for select whatever the type is, otherwise the label the table gives to the
\* lower-cased type, and INPUT_FIELD for any other type and for no type.
C6_FormControls ==
    ret.fn = "getEventObjectType" =>
        LET element == dom[ret.element]
            tag == toLowerCase(element.tagName)
        IN  tag \in {"input", "textarea", "select"} =>
                ret.value =
                    IF tag = "select" THEN "DROP_DOWN"
                    ELSE IF element.type # Undefined
                            /\ toLowerCase(element.type[1]) \in DOMAIN TypeTable
                         THEN TypeTable[toLowerCase(element.type[1])]
                         ELSE "INPUT_FIELD"

\* An input whose type is written in upper case has been classified.
C6_Witness ==
    /\ ret.fn = "getEventObjectType"
    /\ dom[ret.element].tagName = "INPUT"
    /\ dom[ret.element].type = Str("CHECKBOX")
    /\ ret.value = "CHECKBOX"

\* The closed enumeration of category labels.
Labels ==
    {"LINK", "BUTTON", "TEXT_FIELD", "CHECKBOX", "RADIO_BUTTON", "FILE_UPLOAD", "SLIDER",
     "DATE_PICKER", "COLOR_PICKER", "DROP_DOWN", "INPUT_FIELD", "IMAGE", "VIDEO", "AUDIO",
     "IFRAME", "CANVAS", "SVG", "TABLE", "LIST", "LIST_ITEM", "CONTAINER", "TEXT_SPAN",
     "PARAGRAPH", "HEADING", "FORM", "LABEL", "NAVIGATION", "HEADER", "FOOTER", "SECTION",
     "ARTICLE", "MAIN_CONTENT", "KEYBOARD", "MOUSE", "WINDOW", "PAGE", "ELEMENT"}

\* The label the claim's second table gives to a tag that is no form control.
TagTable ==
    ("a" :> "LINK") @@ ("button" :> "BUTTON") @@ ("img" :> "IMAGE") @@ ("video" :> "VIDEO")
    @@ ("audio" :> "AUDIO") @@ ("iframe" :> "IFRAME") @@ ("canvas" :> "CANVAS")
    @@ ("svg" :> "SVG") @@ ("table" :> "TABLE") @@ ("ul" :> "LIST") @@ ("ol" :> "LIST")
    @@ ("li" :> "LIST_ITEM") @@ ("div" :> "CONTAINER") @@ ("span" :> "TEXT_SPAN")
    @@ ("p" :> "PARAGRAPH") @@ ("h1" :> "HEADING") @@ ("h2" :> "HEADING")
    @@ ("h3" :> "HEADING") @@ ("h4" :> "HEADING") @@ ("h5" :> "HEADING")
    @@ ("h6" :> "HEADING") @@ ("form" :> "FORM") @@ ("label" :> "LABEL")
    @@ ("nav" :> "NAVIGATION") @@ ("header" :> "HEADER") @@ ("footer" :> "FOOTER")
    @@ ("section" :> "SECTION") @@ ("article" :> "ARTICLE") @@ ("main" :> "MAIN_CONTENT")

\* C7: getEventObjectType returns a label of the enumeration for every tag: that
\* of the second table for a listed tag that is no form control, ELEMENT for a
\* tag neither table covers; and a call of it leaves the event sequence alone.
C7_Total ==
    /\ [](ret.fn = "getEventObjectType" =>
             LET tag == toLowerCase(dom[ret.element].tagName)
             IN  /\ ret.value \in Labels
                 /\ (tag \notin {"input", "textarea", "select"} /\ tag \in DOMAIN TagTable)
                        => ret.value = TagTable[tag]
                 /\ (tag \notin {"input", "textarea", "select"} /\ tag \notin DOMAIN TagTable)
                        => ret.value = "ELEMENT")
    /\ [][ret'.fn = "getEventObjectType" => events' = events]_vars

\* A custom element has been classified.
C7_Witness ==
    /\ ret.fn = "getEventObjectType"
    /\ dom[ret.element].tagName = "MY-WIDGET"
    /\ ret.value = "ELEMENT"

\* The k-th ancestor of a node (the node itself for k = 0).
RECURSIVE Ancestor(_, _, _)
Ancestor(d, n, k) == IF k = 0 THEN n ELSE Ancestor(d, d[n].parentNode, k - 1)

\* The number of element siblings before a node that have its tag.
SameTagBefore(d, n) ==
    LET kids == d[d[n].parentNode].childNodes
        at == CHOOSE i \in 1..Len(kids) : kids[i] = n
    IN  Cardinality({i \in 1..(at - 1) :
                        /\ d[kids[i]].nodeType = 1
                        /\ d[kids[i]].tagName = d[n].tagName})

\* The segment the claim gives to a level that has no id.
SegmentOf(d, n) ==
    IF SameTagBefore(d, n) = 0 THEN toLowerCase(d[n].tagName)
    ELSE toLowerCase(d[n].tagName) \o ":nth-of-type("
             \o ToString(SameTagBefore(d, n) + 1) \o ")"

\* C8: for an element with no id and no class, the path getCssSelector joins
\* has, at each level that has no id, the tag alone when no preceding sibling
\* has the tag, and tag:nth-of-type(n) otherwise, n being one plus the number
\* of preceding element siblings with the tag.
C8_NthOfType ==
    (/\ ret.fn = "getCssSelector"
     /\ dom[ret.element].id = ""
     /\ dom[ret.element].className = "") =>
        /\ ret.value = join(ret.path, " > ")
        /\ \A k \in 1..Len(ret.path) :
              LET level == Ancestor(dom, ret.element, k - 1)
              IN  dom[level].id = "" =>
                      ret.path[Len(ret.path) - k + 1] = SegmentOf(dom, level)

\* The third of three li without id or class in a ul, a p between them.
C8_Witness ==
    /\ ret.fn = "getCssSelector"
    /\ dom \in PageDocs
    /\ ret.element = 11
    /\ dom[11].id = "" /\ dom[11].className = ""
    /\ dom[6].tagName = "UL" /\ dom[6].childNodes = <<7, 8, 9, 10, 11>>
    /\ ret.path[Len(ret.path)] = "li:nth-of-type(3)"

\* The first n characters of a string.
IsFirstChars(t, s, n) ==
    /\ Len(t) = n
    /\ \A k \in 1..n : SubSeq(t, k, k) = SubSeq(s, k, k)

\* C9: the click handler stores the first 50 characters of an innerText longer
\* than 50 characters, the change handler the first 50 characters of a value
\* longer than 50 characters; no stored text or value is longer than 50.
C9_Truncated ==
    /\ [](\A i \in 1..Len(events) :
             /\ events[i].type_of_event = "CLICK" => Len(events[i].element.text) <= 50
             /\ events[i].type_of_event = "CHANGE" => Len(events[i].element.value) <= 50)
    /\ [][/\ \A element \in ClickTargets :
                (/\ HandleClickEvent(element)
                 /\ dom[element].innerText # Undefined
                 /\ Len(dom[element].innerText[1]) > 50)
                    => IsFirstChars(events'[Len(events')].element.text,
                                    dom[element].innerText[1], 50)
          /\ \A element \in ChangeTargets :
                (/\ HandleChangeEvent(element)
                 /\ dom[element].value # Undefined
                 /\ Len(dom[element].value[1]) > 50)
                    => IsFirstChars(events'[Len(events')].element.value,
                                    dom[element].value[1], 50)]_vars

\* A click on the div whose text has 61 characters and a change of the textarea
\* whose value has 61 characters have been recorded.
C9_Witness ==
    /\ Len(LongText) > 50
    /\ \E i, j \in 1..Len(events) :
          /\ events[i].type_of_event = "CLICK"
          /\ events[i].element.id = "nav"
          /\ IsFirstChars(events[i].element.text, LongText, 50)
          /\ events[j].type_of_event = "CHANGE"
          /\ events[j].element.name = "bio"
          /\ IsFirstChars(events[j].element.value, LongText, 50)

\* out is the subsequence of ev whose records have the value v in a field: as
\* many records as match, taken at increasing positions of ev.
IsFilterOf(out, ev, field, v) ==
    LET matching == {i \in 1..Len(ev) : ev[i][field] = v}
    IN  /\ Len(out) = Cardinality(matching)
        /\ \E at \in [1..Len(out) -> matching] :
              /\ \A j, k \in 1..Len(out) : j < k => at[j] < at[k]
              /\ \A j \in 1..Len(out) : out[j] = ev[at[j]]

\* C10: getEventsByType(kind) returns the records whose type_of_event is kind,
\* getEventsByObjectType(category) those whose event_object is category, each
\* in the order of the sequence; getAllEvents returns the sequence itself.
C10_Filters ==
    [][/\ \A kind \in QueriedTypes :
             GetEventsByType(kind) =>
                 IsFilterOf(ret'.value, events, "type_of_event", kind)
       /\ \A category \in QueriedObjectTypes :
             GetEventsByObjectType(category) =>
                 IsFilterOf(ret'.value, events, "event_object", category)
       /\ GetAllEvents => ret'.ref = "ActivityTracker.events"]_vars

\* Of a PAGE_VIEW, a CLICK and a HOVER record, the two of a link were returned.
C10_Witness ==
    /\ ret.fn = "getEventsByObjectType"
    /\ ret.arg = "LINK"
    /\ Len(events) = 3
    /\ Len(ret.value) = 2
    /\ ret.value[1] = events[2] /\ ret.value[2] = events[3]
    /\ ret.value[1].type_of_event # ret.value[2].type_of_event

----------------------------------------------------------------------------
(* The ancestor walk of getCssSelector. *)

\* The element ancestors of a node, nearest first.
RECURSIVE ElementAncestors(_, _)
ElementAncestors(d, n) ==
    IF parentElement(d, n) = Null THEN <<>>
    ELSE <<parentElement(d, n)>> \o ElementAncestors(d, parentElement(d, n))

\* The positions, in ElementAncestors, of the ancestors that have an id.
AncestorsWithId(d, n) ==
    {k \in 1..Len(ElementAncestors(d, n)) : d[ElementAncestors(d, n)[k]].id # ""}

\* C11: for an element with no id and no class, the walk of getCssSelector
\* stops at the first ancestor that has an id, which is the first segment of
\* the path, as tag#id, also when that ancestor is the root (it has no parent);
\* when no ancestor has an id the walk stops at the root.
C11_StopsAtFirstId ==
    (/\ ret.fn = "getCssSelector"
     /\ dom[ret.element].id = ""
     /\ dom[ret.element].className = "") =>
        LET anc == ElementAncestors(dom, ret.element)
            withId == AncestorsWithId(dom, ret.element)
        IN  IF withId # {}
            THEN LET k == CHOOSE j \in withId : \A i \in withId : j <= i
                 IN  /\ Len(ret.path) = k + 1
                     /\ ret.path[1] = toLowerCase(dom[anc[k]].tagName)
                                          \o "#" \o dom[anc[k]].id
            ELSE Len(ret.path) \in {Len(anc), Len(anc) + 1}

----------------------------------------------------------------------------
(* getXPath on a detached tree. *)

\* Where the chain of parentNode from a node ends for getXPath: at a node with
\* an id, at the body, or at a node that has no parentNode.
RECURSIVE ChainEnd(_, _)
ChainEnd(d, n) ==
    IF d[n].id # "" THEN "id"
    ELSE IF n = documentBody(d) THEN "body"
    ELSE IF d[n].parentNode = Null THEN "detached"
    ELSE ChainEnd(d, d[n].parentNode)

\* C12: getXPath of an element without id whose chain of parents ends at a
\* parentless node other than the body (the element itself, or an ancestor
\* reached before the body and before any ancestor with an id) is undefined,
\* never a path string.
C12_DetachedUndefined ==
    (/\ ret.fn = "getXPath"
     /\ ChainEnd(dom, ret.element) = "detached") =>
        ret.value = Undefined

----------------------------------------------------------------------------
(* The throttled handlers, one against another. *)

\* The delay each throttled listener was registered with.
DelayOf == [scroll |-> 500, mousemove |-> 1000, resize |-> 500]

\* C13: each throttled handler has its own last-accepted time and nothing is
\* queued: an invocation of one handler, accepted or dropped, leaves the
\* last-accepted time of every other handler, and so whether an invocation of
\* that other handler would be accepted; a dropped invocation changes nothing;
\* a record is appended only in the step of the invocation that is accepted,
\* with the time of that step, and never by the passing of time.
C13_PerHandler ==
    [][/\ \A t \in ThrottledListeners :
             (Dispatched /\ lastEvent'.type = t) =>
                 \A u \in DOMAIN lastCall \ {t} :
                    /\ lastCall'[u] = lastCall[u]
                    /\ (now' - lastCall'[u] >= DelayOf[u]) = (now - lastCall[u] >= DelayOf[u])
       /\ (Dispatched /\ ~lastEvent'.appended) => events' = events /\ lastCall' = lastCall
       /\ (pc' = pc /\ events' # events) =>
             /\ lastEvent'.appended
             /\ AppendsOne(KindOf[lastEvent'.type])
             /\ events'[Len(events')].timestamp = now
             /\ now - lastCall[lastEvent'.type] >= DelayOf[lastEvent'.type]
             /\ now' = now
       /\ now' # now => events' = events /\ lastCall' = lastCall]_vars

\* A scroll was accepted inside the window of an accepted resize, and after the
\* windows of both have passed the sequence still has one record of each.
C13_Witness ==
    /\ Len(events) = 3
    /\ events[2].type_of_event = "RESIZE"
    /\ events[3].type_of_event = "SCROLL"
    /\ events[3].timestamp > events[2].timestamp
    /\ events[3].timestamp - events[2].timestamp < 500
    /\ lastCall["resize"] = events[2].timestamp
    /\ lastCall["scroll"] = events[3].timestamp
    /\ now - lastCall["scroll"] >= 500

----------------------------------------------------------------------------
(* The filters of the handlers. *)

\* The lower-cased tag of an element of the page.
TagOf(element) == toLowerCase(dom[element].tagName)

\* A handler whose filter the event passes appends one record of the kind;
\* one whose filter rejects it leaves the sequence unchanged.
AppendsIff(passes, kind) == IF passes THEN AppendsOne(kind) ELSE events' = events

\* A step in which an event of a type was dispatched to its handler.
Delivered(type) == Dispatched /\ lastEvent'.type = type

\* C14: mouseover appends one HOVER record when the target's tag is a, button,
\* input, select or textarea, and nothing otherwise; focus and blur append one
\* record when the tag is input, textarea or select, and nothing otherwise;
\* keydown appends one record when the key is Enter, Escape, Tab, Backspace or
\* Delete, and nothing otherwise; click, change and submit always append one.
C14_Filters ==
    [][/\ \A element \in HoverTargets :
             (Delivered("mouseover") /\ HandleHoverEvent(element)) =>
                 AppendsIff(TagOf(element) \in {"a", "button", "input", "select", "textarea"},
                            "HOVER")
       /\ \A element \in FocusTargets :
             /\ (Delivered("focus") /\ HandleFocusEvent(element)) =>
                    AppendsIff(TagOf(element) \in {"input", "textarea", "select"}, "FOCUS")
             /\ (Delivered("blur") /\ HandleBlurEvent(element)) =>
                    AppendsIff(TagOf(element) \in {"input", "textarea", "select"}, "BLUR")
       /\ \A key \in Keys :
             (Delivered("keydown") /\ HandleKeyboardEvent(key)) =>
                 AppendsIff(key \in {"Enter", "Escape", "Tab", "Backspace", "Delete"},
                            "KEYBOARD")
       /\ \A element \in ClickTargets :
             (Delivered("click") /\ HandleClickEvent(element)) => AppendsOne("CLICK")
       /\ \A element \in ChangeTargets :
             (Delivered("change") /\ HandleChangeEvent(element)) => AppendsOne("CHANGE")
       /\ \A form \in SubmitTargets :
             (Delivered("submit") /\ HandleSubmitEvent(form)) => AppendsOne("FORM_SUBMIT")]_vars

\* A focus on a div was ignored after a mouseover on a link was recorded.
C14_Witness ==
    /\ lastEvent = [type |-> "focus", appended |-> FALSE]
    /\ \E element \in FocusTargets : TagOf(element) = "div"
    /\ Len(events) = 2
    /\ events[2].type_of_event = "HOVER"
    /\ events[2].element.tagName = "a"

----------------------------------------------------------------------------
(* The order of initialisation. *)

\* C15: once initActivityTracker has run, the first record is the PAGE_VIEW
\* record and it is the only PAGE_VIEW record; the session id and the start
\* time were set before it was appended (no record is appended while either is
\* null); the listeners are registered after it is appended, so that no record
\* of a listener precedes it.
C15_InitOrder ==
    /\ [](pc = "ready" =>
            /\ Len(events) >= 1
            /\ events[1].type_of_event = "PAGE_VIEW"
            /\ IndicesOfType(events, "PAGE_VIEW") = {1}
            /\ session.sessionId # <<>>
            /\ session.startTime # <<>>)
    /\ [][events' # events =>
             /\ session.sessionId # <<>>
             /\ session.startTime # <<>>]_vars
    /\ [][(events = <<>> /\ events' # events) =>
             /\ AppendsOne("PAGE_VIEW")
             /\ listeners = {}
             /\ listeners' = {}]_vars
    /\ [][listeners' # listeners =>
             /\ listeners = {}
             /\ Len(events) = 1
             /\ events[1].type_of_event = "PAGE_VIEW"]_vars

\* The file was downloaded while the document was loading, which appended
\* nothing; the tracker then initialised and two events were recorded.
C15_Witness ==
    /\ pc = "ready"
    /\ ret.fn = "downloadEventsAsJSON"
    /\ ret.file.name = "activity-tracker-null.json"
    /\ session.sessionId # <<>>
    /\ Len(events) = 3
    /\ events[1].type_of_event = "PAGE_VIEW"
    /\ events[2].type_of_event = "CLICK"
    /\ events[3].type_of_event = "SCROLL"

----------------------------------------------------------------------------
(* The flags of the config object. *)

\* The listeners that registerEventListeners adds under a flag.
FormListeners == {"focus", "blur", "change", "submit"}

\* Whether the handler of a type records the event dispatched to it: a
\* throttled one when its delay has passed, the others (on a form control) always.
Records(type) ==
    IF type \in ThrottledListeners THEN now - lastCall[type] >= DelayOf[type] ELSE TRUE

\* C16: the flags trackScrolling, trackFormInputs and trackMouseMovement are
\* read once, when the listeners are registered: the listeners are those of the
\* flags at initialisation and never change afterwards; setting a flag changes
\* neither the listeners nor the sequence; a dispatched event is recorded or
\* not whatever the flags, logToConsole among them, are at that time; without
\* a mousemove listener no MOUSE_MOVE record is ever in the sequence, and a
\* registered scroll or form listener stays able to record after its flag is
\* set to false.
C16_FlagsAtRegistration ==
    /\ [][pc' # pc =>
             /\ ("mousemove" \in listeners') = config.trackMouseMovement
             /\ ("scroll" \in listeners') = config.trackScrolling
             /\ (FormListeners \subseteq listeners') = config.trackFormInputs
             /\ (FormListeners \cap listeners' = {}) = ~config.trackFormInputs]_vars
    /\ [][pc = "ready" => listeners' = listeners]_vars
    /\ [][config' # config =>
             events' = events /\ listeners' = listeners /\ lastCall' = lastCall]_vars
    /\ [][Dispatched =>
             /\ lastEvent'.type \in listeners
             /\ lastEvent'.appended = Records(lastEvent'.type)
             /\ lastEvent'.appended => AppendsOne(KindOf[lastEvent'.type])]_vars
    /\ []("mousemove" \notin listeners => IndicesOfType(events, "MOUSE_MOVE") = {})
    /\ []((/\ "scroll" \in listeners
           /\ Len(events) < MaxEvents
           /\ lastCall["scroll"] = 0) => ENABLED (HandleScrollEvent /\ AppendsOne("SCROLL")))
    /\ []((/\ "focus" \in listeners
           /\ Len(events) < MaxEvents) => ENABLED (HandleFocusEvent(13) /\ AppendsOne("FOCUS")))

\* Registered with the defaults, then every flag inverted: scroll and focus
\* were recorded with trackScrolling, trackFormInputs and logToConsole false,
\* and mousemove has no listener with trackMouseMovement true.
C16_Witness ==
    /\ pc = "ready"
    /\ ~config.trackScrolling /\ ~config.trackFormInputs /\ ~config.logToConsole
    /\ config.trackMouseMovement
    /\ "mousemove" \notin listeners
    /\ Len(events) = 3
    /\ events[2].type_of_event = "SCROLL"
    /\ events[3].type_of_event = "FOCUS"
    /\ lastEvent = [type |-> "focus", appended |-> TRUE]

====
